---- MODULE Spec2Model ----
(***************************************************************************)
(* Model of the go-agents orchestrator (agent.go, message.go, tools.go).   *)
(*                                                                         *)
(* One run of Agent.StreamChatCompletion: the caller builds the request,   *)
(* a background goroutine runs the completion / tool loop and hands every  *)
(* event to the consumer over an unbuffered channel, and a deferred close  *)
(* ends the stream.  The remote completion service and the tools are the   *)
(* environment: their replies and results are chosen nondeterministically. *)
(* The service is assumed to honour its reply shape (one choice per        *)
(* reply, a distinct identifier per tool-call request).                    *)
(***************************************************************************)
EXTENDS Integers, Sequences, FiniteSets, TLC

(***************************************************************************)
(* Bounds of the model.                                                    *)
(***************************************************************************)
MaxIter == 2
MaxCalls == 2

(***************************************************************************)
(* message.go: roles, kinds, Message and its constructors.                 *)
(***************************************************************************)
RoleUser == "user"
RoleAssistant == "assistant"
RoleSystem == "system"
MessageKindText == "text"
MessageKindFile == "file"

NoFile == [Data |-> << >>, Name |-> ""]

UserTextMessage(text) ==
    [Role |-> RoleUser, Kind |-> MessageKindText, text |-> text, file |-> NoFile]

\* Variant: the file constructor tags the message as text.
UserFileMessageAsText(file) ==
    [Role |-> RoleUser, Kind |-> MessageKindText, text |-> "", file |-> file]

UserFileMessage(file) ==
    [Role |-> RoleUser, Kind |-> MessageKindFile, text |-> "", file |-> file]

AssistantTextMessage(content) ==
    [Role |-> RoleAssistant, Kind |-> MessageKindText, text |-> content, file |-> NoFile]

SystemMessage(text) ==
    [Role |-> RoleSystem, Kind |-> MessageKindText, text |-> text, file |-> NoFile]

MsgText(m) == IF m.Kind # MessageKindText THEN "" ELSE m.text

MsgFile(m) == IF m.Kind # MessageKindFile THEN NoFile ELSE m.file

\* The image kind (agent.go 270-271 uses MessageKindImage and msg.Image()).
MessageKindImage == "image"

NoImage == [Data |-> << >>]

UserImageMessage(image) ==
    [Role |-> RoleUser, Kind |-> MessageKindImage, text |-> "", file |-> NoFile,
     image |-> image]

MsgImage(m) == IF m.Kind # MessageKindImage THEN NoImage ELSE m.image

(***************************************************************************)
(* message.go: Usage, Response and its constructors.  The nil error is "". *)
(***************************************************************************)
ResponseKindContent == "content"
ResponseKindUsage == "usage"
ResponseKindError == "error"

ZeroUsage == [PromptTokens |-> 0, CompletionTokens |-> 0, TotalTokens |-> 0]

NoError == ""

NewContentResponse(content) ==
    [Kind |-> ResponseKindContent, content |-> content, err |-> NoError, usage |-> ZeroUsage]

\* Variant: the usage constructor tags the response as content.
NewUsageResponseAsContent(usage) ==
    [Kind |-> ResponseKindContent, content |-> "", err |-> NoError, usage |-> usage]

NewUsageResponse(usage) ==
    [Kind |-> ResponseKindUsage, content |-> "", err |-> NoError, usage |-> usage]

NewErrorResponse(e) ==
    [Kind |-> ResponseKindError, content |-> "", err |-> e, usage |-> ZeroUsage]

IsContentResponse(r) == r.Kind = ResponseKindContent

IsUsageResponse(r) == r.Kind = ResponseKindUsage

IsErrorResponse(r) == r.Kind = ResponseKindError

NoResponse == [Kind |-> "", content |-> "", err |-> NoError, usage |-> ZeroUsage]

ResponseUsage(r) == IF r.Kind # ResponseKindUsage THEN ZeroUsage ELSE r.usage

ResponseContent(r) == IF r.Kind # ResponseKindContent THEN "" ELSE r.content

ResponseError(r) == IF r.Kind # ResponseKindError THEN NoError ELSE r.err

(***************************************************************************)
(* agent.go 99-127: the aggregate ChatCompletion folds the stream into.    *)
(***************************************************************************)
\* Completion{}: no responses, no messages, zero usage.
ZeroCompletion == [Responses |-> << >>, Messages |-> << >>, Usage |-> ZeroUsage]

\* Variant: the usage of the last event replaces the running sum.
AddUsageOverwrite(acc, u) == u

\* agent.go 114-116: the three counters are summed field by field.
AddUsage(acc, u) ==
    [PromptTokens |-> acc.PromptTokens + u.PromptTokens,
     CompletionTokens |-> acc.CompletionTokens + u.CompletionTokens,
     TotalTokens |-> acc.TotalTokens + u.TotalTokens]

\* Variant: the text accessor is appended for every response.
AddMessageAlways(msgs, r) == Append(msgs, ResponseContent(r))

\* agent.go 118-120: the text of a Content response is appended.
AddMessage(msgs, r) ==
    IF IsContentResponse(r) THEN Append(msgs, ResponseContent(r)) ELSE msgs

\* agent.go 111-120: one pass of the range loop over the stream.
FoldResponse(c, r) ==
    [Responses |-> Append(c.Responses, r),
     Messages |-> AddMessage(c.Messages, r),
     Usage |-> IF IsUsageResponse(r) THEN AddUsage(c.Usage, ResponseUsage(r)) ELSE c.Usage]

NoResult == [returned |-> FALSE, completion |-> ZeroCompletion, err |-> NoError]

\* Variant: the partial aggregate is returned together with the error.
ErrorResultPartial(c, r) == [returned |-> TRUE, completion |-> c, err |-> ResponseError(r)]

\* agent.go 121-123: `return Completion{}, response.Error()`.
ErrorResult(c, r) == [returned |-> TRUE, completion |-> ZeroCompletion, err |-> ResponseError(r)]

\* agent.go 126: `return completion, nil`.
FinalResult(c) == [returned |-> TRUE, completion |-> c, err |-> NoError]

(***************************************************************************)
(* Provider turns (openai.ChatCompletionMessageParamUnion): what           *)
(* params.Messages holds.  A tool-call identifier is a pair                *)
(* <<remote call number, position in the reply>>.                          *)
(***************************************************************************)
NoId == << >>

Turn(role, text, file, calls, id) ==
    [role |-> role, text |-> text, file |-> file, calls |-> calls, id |-> id]

OpenAISystemMessage(text) == Turn("system", text, NoFile, << >>, NoId)

OpenAIUserMessage(text) == Turn("user", text, NoFile, << >>, NoId)

OpenAIAssistantMessage(text) == Turn("assistant", text, NoFile, << >>, NoId)

OpenAIUserFileMessage(data, name) ==
    Turn("user", "", [Data |-> data, Name |-> name], << >>, NoId)

\* agent.go 272-286: a user turn whose content part is an image data URL.
OpenAIUserImageMessage(data) ==
    Turn("user", "", [URL |-> "data:image/png;base64,", Data |-> data], << >>, NoId)

\* Variant: every tool-result turn is keyed to the first call of the reply.
ToolMessageFirstId(content, id) == Turn("tool", content, NoFile, << >>, << id[1], 1 >>)

ToolMessage(content, id) == Turn("tool", content, NoFile, << >>, id)

ToParam(reply) == Turn("assistant", reply.content, NoFile, reply.toolCalls, NoId)

(***************************************************************************)
(* base64.StdEncoding.EncodeToString, on byte sequences: each group of     *)
(* three bytes gives four 6-bit symbols, a short last group is padded      *)
(* with "=" (symbol 64).                                                   *)
(***************************************************************************)
RECURSIVE Base64(_)
Base64(bytes) ==
    IF Len(bytes) = 0 THEN << >>
    ELSE IF Len(bytes) = 1 THEN
        << bytes[1] \div 4, (bytes[1] % 4) * 16, 64, 64 >>
    ELSE IF Len(bytes) = 2 THEN
        << bytes[1] \div 4,
           (bytes[1] % 4) * 16 + (bytes[2] \div 16),
           (bytes[2] % 16) * 4, 64 >>
    ELSE
        << bytes[1] \div 4,
           (bytes[1] % 4) * 16 + (bytes[2] \div 16),
           (bytes[2] % 16) * 4 + (bytes[3] \div 64),
           bytes[3] % 64 >> \o Base64(SubSeq(bytes, 4, Len(bytes)))

(***************************************************************************)
(* agent.go: convertMessages and buildMessages.                            *)
(***************************************************************************)
\* Variant: the switch on the role has no default case.
ConvertMessageNoDefault(msg) ==
    IF msg.Role = RoleSystem THEN << OpenAISystemMessage(MsgText(msg)) >>
    ELSE IF msg.Role = RoleAssistant THEN << OpenAIAssistantMessage(MsgText(msg)) >>
    ELSE IF msg.Role = RoleUser THEN
        IF msg.Kind = MessageKindText THEN << OpenAIUserMessage(MsgText(msg)) >>
        ELSE IF msg.Kind = MessageKindFile THEN
            << OpenAIUserFileMessage(Base64(MsgFile(msg).Data), MsgFile(msg).Name) >>
        ELSE IF msg.Kind = MessageKindImage THEN
            << OpenAIUserImageMessage(Base64(MsgImage(msg).Data)) >>
        ELSE << >>
    ELSE << >>

\* agent.go 246-292: the turns one message contributes.
ConvertMessage(msg) ==
    IF msg.Role = RoleSystem THEN << OpenAISystemMessage(MsgText(msg)) >>
    ELSE IF msg.Role = RoleAssistant THEN << OpenAIAssistantMessage(MsgText(msg)) >>
    ELSE IF msg.Role = RoleUser THEN
        IF msg.Kind = MessageKindText THEN << OpenAIUserMessage(MsgText(msg)) >>
        ELSE IF msg.Kind = MessageKindFile THEN
            << OpenAIUserFileMessage(Base64(MsgFile(msg).Data), MsgFile(msg).Name) >>
        ELSE IF msg.Kind = MessageKindImage THEN
            << OpenAIUserImageMessage(Base64(MsgImage(msg).Data)) >>
        ELSE << >>
    ELSE << OpenAIUserMessage(MsgText(msg)) >>

RECURSIVE convertMessages(_)
convertMessages(msgs) ==
    IF msgs = << >> THEN << >>
    ELSE ConvertMessage(Head(msgs)) \o convertMessages(Tail(msgs))

\* Variant: the instructions are put before the system prompt.
buildMessagesInstructionsFirst(prompt, instr, msgs) ==
    (IF instr # "" THEN << OpenAIUserMessage(instr) >> ELSE << >>)
    \o (IF prompt # "" THEN << OpenAISystemMessage(prompt) >> ELSE << >>)
    \o convertMessages(msgs)

buildMessages(prompt, instr, msgs) ==
    (IF prompt # "" THEN << OpenAISystemMessage(prompt) >> ELSE << >>)
    \o (IF instr # "" THEN << OpenAIUserMessage(instr) >> ELSE << >>)
    \o convertMessages(msgs)

(***************************************************************************)
(* Tools (tools.go).  A tool is its name and the behaviour of its Execute: *)
(* the values it may return.  Execute may also return an error.            *)
(***************************************************************************)
StringValue(s) == [type |-> "string", s |-> s, n |-> 0]

MapValue(n) == [type |-> "map", s |-> "", n |-> n]

ChanValue == [type |-> "chan", s |-> "", n |-> 0]

NoValue == [type |-> "", s |-> "", n |-> 0]

ToolA == [name |-> "a", returns |-> {StringValue("sunny")}]

ToolB == [name |-> "b", returns |-> {MapValue(7), ChanValue}]

ToolLists == { << >>, << ToolA >>, << ToolA, ToolB >> }

ToolNames == {"a", "b"}

NoTool == [name |-> "", returns |-> {}]

\* agent.go 192-198: first registered tool of that name, or the nil Tool.
RECURSIVE LookupTool(_, _)
LookupTool(ts, name) ==
    IF ts = << >> THEN NoTool
    ELSE IF Head(ts).name = name THEN Head(ts)
    ELSE LookupTool(Tail(ts), name)

\* json.Unmarshal of the argument payload into map[string]any.
WellFormedArgs == "{}"

MalformedArgs == "[1]"

UnmarshalOk(payload) == payload \in {"{}", "null"}

\* json.Marshal of a tool result that is not a string.
Digit(n) == CASE n = 0 -> "0" [] n = 1 -> "1" [] n = 2 -> "2" [] n = 3 -> "3"
              [] n = 4 -> "4" [] n = 5 -> "5" [] n = 6 -> "6" [] n = 7 -> "7"
              [] n = 8 -> "8" [] OTHER -> "9"

MarshalOk(v) == v.type # "chan"

Marshal(v) ==
    IF v.type = "string" THEN "\"" \o v.s \o "\""
    ELSE "{\"n\":" \o Digit(v.n) \o "}"

(***************************************************************************)
(* Replies of the remote completion service.                               *)
(***************************************************************************)
Usage12 == [PromptTokens |-> 10, CompletionTokens |-> 2, TotalTokens |-> 12]

Usage4 == [PromptTokens |-> 3, CompletionTokens |-> 1, TotalTokens |-> 4]

\* The text and token counts a reply may carry.
ReplyBodies ==
    { [content |-> "", usage |-> Usage4],
      [content |-> "4", usage |-> Usage12] }

ToolCall(name, args, id) == [name |-> name, args |-> args, id |-> id]

OtherName(name) == IF name = "a" THEN "b" ELSE "a"

\* The tool-call lists the k-th remote call may return: up to MaxCalls
\* requests whose names alternate from either tool name, at most one of
\* them (the one at position bad) with a malformed argument payload.
ToolCallLists(k) ==
    { [i \in 1..n |->
          ToolCall(IF i % 2 = 1 THEN first ELSE OtherName(first),
                   IF i = bad THEN MalformedArgs ELSE WellFormedArgs,
                   << k, i >>)] :
        n \in 0..MaxCalls, first \in ToolNames, bad \in 0..MaxCalls }

Replies(k) ==
    { [content |-> b.content, toolCalls |-> tc, usage |-> b.usage] :
        b \in ReplyBodies, tc \in ToolCallLists(k) }

NoReply == [content |-> "", toolCalls |-> << >>, usage |-> ZeroUsage]

(***************************************************************************)
(* The caller's inputs.                                                    *)
(***************************************************************************)
TextOnlyList == << UserTextMessage("What is 2+2?") >>

MixedList ==
    << SystemMessage("be brief"), UserTextMessage("hi"), AssistantTextMessage("hello") >>

FileList == << UserFileMessage([Data |-> << 77 >>, Name |-> "f.txt"]) >>

\* The configured prompt and instructions, and the message list of the call.
Setups ==
    { [prompt |-> "", instr |-> "", msgs |-> TextOnlyList],
      [prompt |-> "sys", instr |-> "", msgs |-> MixedList],
      [prompt |-> "", instr |-> "ins", msgs |-> FileList],
      [prompt |-> "sys", instr |-> "ins", msgs |-> << >>] }

(***************************************************************************)
(* State.                                                                  *)
(***************************************************************************)
VARIABLES
    maxIterations,  \* Agent.maxIterations
    tools,          \* Agent.tools
    systemPrompt,   \* Agent.systemPrompt
    instructions,   \* Agent.instructions
    messages,       \* the caller's message list
    history,        \* params.Messages
    pc,             \* position of the background goroutine
    iteration,      \* number of completed passes of the range loop
    response,       \* the reply of the current iteration
    callIdx,        \* index of the tool call being handled
    err,            \* the error returned by the loop function
    pending,        \* the event the goroutine is blocked sending
    cancelled,      \* the caller's context is done
    completion,     \* ChatCompletion's local aggregate
    result,         \* what ChatCompletion returned
    runs,           \* the runs of concurrent StreamChatCompletion calls on the Agent
    calc,           \* a call of a constructor or converter: its argument and result
    started,        \* what StreamChatCompletion returned to its caller
    reading,        \* the consumer still receives from the stream
    trace           \* observation log: remote calls, deliveries, executions, close

vars == << maxIterations, tools, systemPrompt, instructions, messages, history,
           pc, iteration, response, callIdx, err, pending, cancelled,
           completion, result, runs, calc, started, reading, trace >>

config == << maxIterations, tools, systemPrompt, instructions, messages >>

Entry(op, ev, reply, call, ok) ==
    [op |-> op, iter |-> iteration, ev |-> ev, reply |-> reply, call |-> call,
     ok |-> ok, at |-> pc, request |-> IF op = "call" THEN history ELSE << >>,
     value |-> NoValue]

NoCall == ToolCall("", "", NoId)

\* StreamChatCompletion has not returned to its caller.
NotReturned == [returned |-> FALSE, err |-> NoError]

\* agent.go 239: StreamChatCompletion has returned the channel and nil.
ReturnedNil == [returned |-> TRUE, err |-> NoError]

\* No constructor or converter has been called.
NoCalc == [fn |-> "", in |-> << >>, out |-> << >>, done |-> FALSE]

Init ==
    /\ maxIterations \in -1..MaxIter
    /\ tools \in ToolLists
    /\ \E su \in Setups :
          /\ systemPrompt = su.prompt
          /\ instructions = su.instr
          /\ messages = su.msgs
    /\ history = buildMessages(systemPrompt, instructions, messages)
    /\ pc = "loop"
    /\ iteration = 0
    /\ response = NoReply
    /\ callIdx = 0
    /\ err = NoError
    /\ pending = NoResponse
    /\ cancelled = FALSE
    /\ completion = ZeroCompletion
    /\ result = NoResult
    /\ runs = << >>
    /\ calc = NoCalc
    /\ started = ReturnedNil
    /\ reading = TRUE
    /\ trace = << >>

(***************************************************************************)
(* The background goroutine of StreamChatCompletion (agent.go 159-237).    *)
(***************************************************************************)
\* Variant: an off-by-one range that makes one pass too many.
LoopCondInclusive(i, n) == i <= n

\* `for range agent.maxIterations`: the body runs while fewer than
\* maxIterations passes were made; not at all when maxIterations <= 0.
LoopCond(i, n) == i < n

HasToolCalls(reply) == Len(reply.toolCalls) > 0

\* Variant: the Content event is sent for every reply.
HasContentAlways(reply) == TRUE

HasContent(reply) == reply.content # ""

\* Variant: every reply turn is kept.
ShouldAppendReplyAlways(reply) == TRUE

\* Variant: the reply turn is kept only if it has content.
ShouldAppendReplyContentOnly(reply) == reply.content # ""

\* agent.go 179: the reply turn is kept if it has content or tool calls.
ShouldAppendReply(reply) == HasContent(reply) \/ HasToolCalls(reply)

\* Variant: the tool calls are dispatched right after the Usage event.
NextPcAfterSendSkipInspect(p) ==
    CASE p = "send_usage" -> "dispatch"
      [] p = "send_content" -> "dispatch"
      [] p = "send_error" -> "close"

\* Variant: the error path returns without closing the channel.
NextPcAfterSendNoClose(p) ==
    CASE p = "send_usage" -> "inspect"
      [] p = "send_content" -> "dispatch"
      [] p = "send_error" -> "done"

\* Where the goroutine continues once a blocked send has been received.
NextPcAfterSend(p) ==
    CASE p = "send_usage" -> "inspect"
      [] p = "send_content" -> "dispatch"
      [] p = "send_error" -> "close"

Sending == pc \in {"send_usage", "send_content", "send_error"}

\* Variant: the returned error is dropped instead of being sent.
ReturnErrSilent(e) ==
    /\ err' = e
    /\ pending' = pending
    /\ pc' = "close"

\* `return err` of the loop function, then `responseChan <- NewErrorResponse(err)`.
ReturnErr(e) ==
    /\ err' = e
    /\ pending' = NewErrorResponse(e)
    /\ pc' = "send_error"

\* agent.go 164: the context handed to the remote call is the caller's.
CallCtxDone == cancelled

\* Variant: the tools run under a context of their own.
ExecCtxDoneBackground == FALSE

\* agent.go 205: the context handed to Execute is the caller's.
ExecCtxDone == cancelled

\* agent.go 164-173: the remote call succeeds; the goroutine reaches the send
\* of the Usage event.
CallRemoteOk ==
    /\ pc = "loop"
    /\ LoopCond(iteration, maxIterations)
    /\ ~CallCtxDone
    /\ \E reply \in Replies(iteration + 1) :
          /\ response' = reply
          /\ trace' = Append(trace, Entry("call", NoResponse, reply, NoCall, TRUE))
          /\ pending' = NewUsageResponse(reply.usage)
    /\ pc' = "send_usage"
    /\ UNCHANGED << config, runs, calc, started, reading, cancelled, completion, result, history, iteration, callIdx, err >>

\* agent.go 164-167: the remote call fails.
CallRemoteErr ==
    /\ pc = "loop"
    /\ LoopCond(iteration, maxIterations)
    /\ trace' = Append(trace, Entry("call", NoResponse, NoReply, NoCall, FALSE))
    /\ ReturnErr(IF CallCtxDone THEN "context canceled" ELSE "transport")
    /\ UNCHANGED << config, runs, calc, started, reading, cancelled, completion, result, history, iteration, response, callIdx >>

\* Variant: exhausting the range is reported as an error.
LoopExitWithError ==
    /\ pc = "loop"
    /\ ~LoopCond(iteration, maxIterations)
    /\ err' = "max iterations"
    /\ pending' = NewErrorResponse("max iterations")
    /\ pc' = "send_error"
    /\ UNCHANGED << config, runs, calc, started, reading, cancelled, completion, result, history, iteration, response, callIdx, trace >>

\* agent.go 162, 232: the range is exhausted, the loop function returns nil.
LoopExit ==
    /\ pc = "loop"
    /\ ~LoopCond(iteration, maxIterations)
    /\ pc' = "close"
    /\ UNCHANGED << config, runs, calc, started, reading, cancelled, completion, result, history, iteration, response, callIdx, err, pending, trace >>

\* Variant: a buffered channel, the send completes without a receiver.
ReceiveBuffered ==
    /\ Sending
    /\ pc' = NextPcAfterSend(pc)
    /\ UNCHANGED << config, runs, calc, started, reading, cancelled, completion, result, history, iteration, response,
                    callIdx, err, pending, trace >>

\* Variant: the range loop does not return on an Error event; the event
\* stays in the aggregate that is returned when the stream is closed.
ReceiveNoEarlyReturn ==
    /\ Sending
    /\ started.returned
    /\ reading
    /\ trace' = Append(trace, Entry("send", pending, NoReply, NoCall, TRUE))
    /\ pending' = NoResponse
    /\ pc' = NextPcAfterSend(pc)
    /\ completion' = FoldResponse(completion, pending)
    /\ UNCHANGED << config, runs, calc, started, reading, cancelled, result, history, iteration,
                    response, callIdx, err >>

\* The consumer (the range loop of ChatCompletion, agent.go 110-124) receives
\* the event the goroutine is blocked on (unbuffered channel: the send
\* completes with the receive), folds it into its aggregate and returns at
\* once on an Error event.  It holds the channel only once
\* StreamChatCompletion has returned it.
Receive ==
    /\ Sending
    /\ started.returned
    /\ reading
    /\ trace' = Append(trace, Entry("send", pending, NoReply, NoCall, TRUE))
    /\ pending' = NoResponse
    /\ pc' = NextPcAfterSend(pc)
    /\ completion' = FoldResponse(completion, pending)
    /\ result' = IF IsErrorResponse(pending) THEN ErrorResult(completion', pending) ELSE result
    /\ UNCHANGED << config, runs, calc, started, reading, cancelled, history, iteration, response, callIdx, err >>

\* Variant: the reply turn is put in front of the history.
InspectPrepend ==
    /\ pc = "inspect"
    /\ history' = IF ShouldAppendReply(response)
                  THEN << ToParam(response) >> \o history ELSE history
    /\ IF HasContent(response)
       THEN /\ pending' = NewContentResponse(response.content)
            /\ pc' = "send_content"
       ELSE /\ pending' = pending
            /\ pc' = "dispatch"
    /\ UNCHANGED << config, runs, calc, started, reading, cancelled, completion, result, iteration, response, callIdx, err, trace >>

\* agent.go 176-186: keep the reply turn, reach the send of the Content event.
Inspect ==
    /\ pc = "inspect"
    /\ history' = IF ShouldAppendReply(response)
                  THEN Append(history, ToParam(response)) ELSE history
    /\ IF HasContent(response)
       THEN /\ pending' = NewContentResponse(response.content)
            /\ pc' = "send_content"
       ELSE /\ pending' = pending
            /\ pc' = "dispatch"
    /\ UNCHANGED << config, runs, calc, started, reading, cancelled, completion, result, iteration, response, callIdx, err, trace >>

\* Variant: the cap is tested before the tools of the last pass are run.
DispatchCapFirst ==
    /\ pc = "dispatch"
    /\ IF HasToolCalls(response) /\ iteration + 1 < maxIterations
       THEN pc' = "tool" /\ callIdx' = 1
       ELSE pc' = "close" /\ callIdx' = callIdx
    /\ UNCHANGED << config, runs, calc, started, reading, cancelled, completion, result, history,
                    iteration, response, err, pending, trace >>

\* agent.go 189-190, 227-230: enter the tool-call loop, or break.
Dispatch ==
    /\ pc = "dispatch"
    /\ IF HasToolCalls(response)
       THEN pc' = "tool" /\ callIdx' = 1
       ELSE pc' = "close" /\ callIdx' = callIdx
    /\ UNCHANGED << config, runs, calc, started, reading, cancelled, completion, result, history, iteration, response, err, pending, trace >>

AtToolCall == pc = "tool" /\ callIdx <= Len(response.toolCalls)

CurrentCall == response.toolCalls[callIdx]

\* Variant: a payload that does not decode is skipped and the loop goes on.
ToolDecodeErrSkip ==
    /\ pc = "tool" /\ callIdx <= Len(response.toolCalls)
    /\ ~UnmarshalOk(response.toolCalls[callIdx].args)
    /\ trace' = Append(trace, Entry("decode", NoResponse, NoReply,
                                    response.toolCalls[callIdx], FALSE))
    /\ callIdx' = callIdx + 1
    /\ UNCHANGED << config, runs, calc, started, reading, cancelled, completion, result, history,
                    pc, iteration, response, err, pending >>

\* agent.go 201-204: the argument payload does not decode.
ToolDecodeErr ==
    /\ AtToolCall
    /\ ~UnmarshalOk(CurrentCall.args)
    /\ trace' = Append(trace, Entry("decode", NoResponse, NoReply, CurrentCall, FALSE))
    /\ ReturnErr("decode")
    /\ UNCHANGED << config, runs, calc, started, reading, cancelled, completion, result, history, iteration, response, callIdx >>

\* agent.go 192-205: no registered tool has the name; `tool` is the nil
\* interface and tool.Execute panics.
ToolMissing ==
    /\ AtToolCall
    /\ UnmarshalOk(CurrentCall.args)
    /\ LookupTool(tools, CurrentCall.name) = NoTool
    /\ pc' = "panic"
    /\ UNCHANGED << config, runs, calc, started, reading, cancelled, completion, result, history, iteration, response, callIdx, err, pending, trace >>

\* Variant: a failed Execute is answered with an error text and the loop goes on.
ToolExecErrContinue ==
    /\ pc = "tool" /\ callIdx <= Len(response.toolCalls)
    /\ UnmarshalOk(response.toolCalls[callIdx].args)
    /\ LookupTool(tools, response.toolCalls[callIdx].name) # NoTool
    /\ trace' = Append(trace, Entry("exec", NoResponse, NoReply, response.toolCalls[callIdx], FALSE))
    /\ history' = Append(history, ToolMessage("error", response.toolCalls[callIdx].id))
    /\ callIdx' = callIdx + 1
    /\ UNCHANGED << config, runs, calc, started, reading, cancelled, completion, result, pc, iteration, response, err, pending >>

\* agent.go 205-208: Execute returns an error.
ToolExecErr ==
    /\ AtToolCall
    /\ UnmarshalOk(CurrentCall.args)
    /\ LookupTool(tools, CurrentCall.name) # NoTool
    /\ trace' = Append(trace, Entry("exec", NoResponse, NoReply, CurrentCall, FALSE))
    /\ ReturnErr(IF ExecCtxDone THEN "context canceled" ELSE "exec")
    /\ UNCHANGED << config, runs, calc, started, reading, cancelled, completion, result, history, iteration, response, callIdx >>

\* Variant: every result is serialized, strings included.
ResultTextAlwaysJSON(v) == Marshal(v)

\* agent.go 210-225: the text of the tool-result turn.
ResultText(v) == IF v.type = "string" THEN v.s ELSE Marshal(v)

ResultOk(v) == v.type = "string" \/ MarshalOk(v)

\* Log entry of an Execute that returned the value v.
Executed(call, v) ==
    [Entry("exec", NoResponse, NoReply, call, TRUE) EXCEPT !.value = v]

\* agent.go 205-225: Execute returns a value; it is appended as a tool turn,
\* or its serialization fails.
ToolExecOk ==
    /\ AtToolCall
    /\ UnmarshalOk(CurrentCall.args)
    /\ LookupTool(tools, CurrentCall.name) # NoTool
    /\ ~ExecCtxDone
    /\ \E v \in LookupTool(tools, CurrentCall.name).returns :
          IF ResultOk(v)
          THEN /\ trace' = Append(trace, Executed(CurrentCall, v))
               /\ history' = Append(history, ToolMessage(ResultText(v), CurrentCall.id))
               /\ callIdx' = callIdx + 1
               /\ UNCHANGED << pc, err, pending >>
          ELSE /\ trace' = Append(Append(trace, Executed(CurrentCall, v)),
                                  Entry("marshal", NoResponse, NoReply, CurrentCall, FALSE))
               /\ ReturnErr("marshal")
               /\ UNCHANGED << history, callIdx >>
    /\ UNCHANGED << config, runs, calc, started, reading, cancelled, completion, result, iteration, response >>

\* Variant: the passes are counted down in the Agent's own field.
NextIterationCountDown ==
    /\ pc = "tool"
    /\ callIdx > Len(response.toolCalls)
    /\ maxIterations' = maxIterations - 1
    /\ pc' = "loop"
    /\ UNCHANGED << tools, systemPrompt, instructions, messages, runs, calc, started, reading,
                    cancelled, completion,
                    result, history, iteration, response, callIdx, err, pending, trace >>

\* agent.go 226, 231, 162: all tool calls handled, next pass of the range.
NextIteration ==
    /\ pc = "tool"
    /\ callIdx > Len(response.toolCalls)
    /\ iteration' = iteration + 1
    /\ pc' = "loop"
    /\ UNCHANGED << config, runs, calc, started, reading, cancelled, completion, result, history, response, callIdx, err, pending, trace >>

\* agent.go 160: the deferred close(responseChan) on return.
Close ==
    /\ pc = "close"
    /\ trace' = Append(trace, Entry("close", NoResponse, NoReply, NoCall, TRUE))
    /\ pc' = "done"
    /\ UNCHANGED << config, runs, calc, started, reading, cancelled, completion, result, history, iteration, response, callIdx, err, pending >>

\* The nil-interface call panics: the deferred close runs while the
\* goroutine unwinds, then the unrecovered panic ends the process.
Panic ==
    /\ pc = "panic"
    /\ trace' = Append(trace, Entry("close", NoResponse, NoReply, NoCall, FALSE))
    /\ pc' = "crashed"
    /\ UNCHANGED << config, runs, calc, started, reading, cancelled, completion, result, history, iteration, response, callIdx, err, pending >>

\* agent.go 110, 126: the channel is closed, the range loop ends and
\* ChatCompletion returns its aggregate.
Return ==
    /\ pc \in {"done", "crashed"}
    /\ started.returned
    /\ ~result.returned
    /\ result' = FinalResult(completion)
    /\ UNCHANGED << config, runs, calc, started, reading, cancelled, completion, history, pc, iteration, response,
                    callIdx, err, pending, trace >>

\* A remote call or an Execute is running: the goroutine waits for it.
OpInFlight ==
    \/ pc = "loop" /\ LoopCond(iteration, maxIterations)
    \/ /\ AtToolCall
       /\ UnmarshalOk(CurrentCall.args)
       /\ LookupTool(tools, CurrentCall.name) # NoTool

\* Variant: the sends select on ctx.Done(), a blocked send gives up when the
\* context is done and the goroutine returns.
CancelWakesSend ==
    /\ ~cancelled
    /\ pc \notin {"done", "crashed"}
    /\ cancelled' = TRUE
    /\ trace' = Append(trace, Entry("cancel", NoResponse, NoReply, NoCall, FALSE))
    /\ pc' = IF pc \in {"send_usage", "send_content", "send_error"} THEN "close" ELSE pc
    /\ UNCHANGED << config, runs, calc, started, reading, completion, result, history, iteration,
                    response, callIdx, err, pending >>

\* The caller cancels the context, or its deadline expires.  The log entry
\* records in `ok` whether an operation was in flight.  The client and the
\* tools honour the context they are given: an operation in flight or
\* started under a done context returns an error.
Cancel ==
    /\ ~cancelled
    /\ pc \notin {"done", "crashed"}
    /\ cancelled' = TRUE
    /\ trace' = Append(trace, Entry("cancel", NoResponse, NoReply, NoCall, OpInFlight))
    /\ UNCHANGED << config, runs, calc, started, reading, completion, result, history, pc, iteration, response,
                    callIdx, err, pending >>

Next ==
    \/ CallRemoteOk
    \/ CallRemoteErr
    \/ LoopExit
    \/ Receive
    \/ Inspect
    \/ Dispatch
    \/ ToolDecodeErr
    \/ ToolMissing
    \/ ToolExecErr
    \/ ToolExecOk
    \/ NextIteration
    \/ Close
    \/ Panic
    \/ Return

Spec == Init /\ [][Next]_vars

\* Runs in which the caller may cancel the context.
NextCancel ==
    \/ Cancel
    \/ CallRemoteOk
    \/ CallRemoteErr
    \/ LoopExit
    \/ Receive
    \/ Inspect
    \/ Dispatch
    \/ ToolDecodeErr
    \/ ToolMissing
    \/ ToolExecErr
    \/ ToolExecOk
    \/ NextIteration
    \/ Close
    \/ Panic
    \/ Return

SpecCancel == Init /\ [][NextCancel]_vars

\* The consumer of StreamChatCompletion stops receiving from the stream
\* before it is closed (it returns, or drops the channel).
StopReading ==
    /\ reading
    /\ pc \notin {"done", "crashed"}
    /\ reading' = FALSE
    /\ UNCHANGED << config, runs, calc, started, cancelled, completion, result, history, pc,
                    iteration, response, callIdx, err, pending, trace >>

\* One configuration of the Agent: both tools known or only the first.
InitAbandon ==
    /\ Init
    /\ maxIterations = MaxIter
    /\ tools # << >>
    /\ systemPrompt = "sys"
    /\ instructions = ""

\* Runs in which the consumer may stop reading and the caller may cancel.
NextAbandon ==
    \/ StopReading
    \/ Cancel
    \/ CallRemoteOk
    \/ CallRemoteErr
    \/ LoopExit
    \/ Receive
    \/ Inspect
    \/ Dispatch
    \/ ToolDecodeErr
    \/ ToolMissing
    \/ ToolExecErr
    \/ ToolExecOk
    \/ NextIteration
    \/ Close
    \/ Panic
    \/ Return

SpecAbandon == InitAbandon /\ [][NextAbandon]_vars

\* A call of StreamChatCompletion from its first statement: nothing is
\* built yet and the goroutine does not exist.
InitStart ==
    /\ maxIterations = MaxIter
    /\ tools \in ToolLists \ { << >> }
    /\ systemPrompt = "sys"
    /\ instructions = ""
    /\ messages = MixedList
    /\ history = << >>
    /\ pc = "start"
    /\ iteration = 0
    /\ response = NoReply
    /\ callIdx = 0
    /\ err = NoError
    /\ pending = NoResponse
    /\ cancelled = FALSE
    /\ completion = ZeroCompletion
    /\ result = NoResult
    /\ runs = << >>
    /\ calc = NoCalc
    /\ started = NotReturned
    /\ reading = TRUE
    /\ trace = << >>

\* agent.go 134-159: the caller's thread makes the channel, builds the
\* request and starts the goroutine.
StreamStart ==
    /\ pc = "start"
    /\ history' = buildMessages(systemPrompt, instructions, messages)
    /\ pc' = "loop"
    /\ UNCHANGED << config, runs, calc, started, reading, cancelled, completion, result,
                    iteration, response, callIdx, err, pending, trace >>

\* Variant: the call waits for the loop function and returns its error.
StreamReturnLoopErr ==
    /\ pc \in {"send_error", "close", "done"}
    /\ ~started.returned
    /\ started' = [returned |-> TRUE, err |-> err]
    /\ UNCHANGED << config, runs, calc, reading, cancelled, completion, result, history,
                    pc, iteration, response, callIdx, err, pending, trace >>

\* agent.go 239: `return responseChan, nil`, whatever the goroutine has
\* done by then.
StreamReturn ==
    /\ pc \notin {"start", "crashed"}
    /\ ~started.returned
    /\ started' = ReturnedNil
    /\ UNCHANGED << config, runs, calc, reading, cancelled, completion, result, history,
                    pc, iteration, response, callIdx, err, pending, trace >>

\* The call and its goroutine, the return interleaved with the run.
NextStart ==
    \/ StreamStart
    \/ StreamReturn
    \/ CallRemoteOk
    \/ CallRemoteErr
    \/ LoopExit
    \/ Receive
    \/ Inspect
    \/ Dispatch
    \/ ToolDecodeErr
    \/ ToolMissing
    \/ ToolExecErr
    \/ ToolExecOk
    \/ NextIteration
    \/ Close
    \/ Panic
    \/ Return

SpecStart == InitStart /\ [][NextStart]_vars

\* Runs in which every enabled step is eventually taken: the consumer keeps
\* reading, every remote call and every Execute returns, the goroutine is
\* scheduled.
LiveSpec == Init /\ [][Next]_vars /\ WF_vars(Next)

TypeOK ==
    /\ pc \in {"loop", "send_usage", "inspect", "send_content", "dispatch", "tool",
               "send_error", "close", "done", "panic", "crashed"}
    /\ iteration \in 0..MaxIter
    /\ callIdx \in 0..(MaxCalls + 1)

(***************************************************************************)
(* Two calls of StreamChatCompletion running at once on one Agent          *)
(* (agent.go 130-240).  Each call owns its channel (line 134), its         *)
(* params.Messages (lines 137-141) and the locals of its goroutine; the    *)
(* Agent's fields are the only state the two have in common.               *)
(***************************************************************************)
Runs == {1, 2}

\* The message list each caller passes.
RunMessages(r) == IF r = 1 THEN TextOnlyList ELSE FileList

\* The text the remote service answers the run's requests with.
RunText(r) == IF r = 1 THEN "4" ELSE "5"

\* The replies the k-th remote call of run r may return; the identifiers
\* of its tool calls are <<run, remote call number, position>>.
RunReplies(r, k) ==
    { [content |-> RunText(r), toolCalls |-> << >>, usage |-> Usage12],
      [content |-> "", toolCalls |-> << >>, usage |-> Usage4],
      [content |-> "",
       toolCalls |-> << ToolCall("a", WellFormedArgs, << r, k, 1 >>) >>,
       usage |-> Usage4],
      [content |-> RunText(r),
       toolCalls |-> << ToolCall("b", WellFormedArgs, << r, k, 1 >>),
                        ToolCall("a", MalformedArgs, << r, k, 2 >>) >>,
       usage |-> Usage12] }

\* A call that has not started: nothing built, no channel traffic.
IdleRun(r) ==
    [messages |-> RunMessages(r), history |-> << >>, pc |-> "idle",
     iteration |-> 0, response |-> NoReply, callIdx |-> 0,
     pending |-> NoResponse,
     own |-> << >>,         \* the turns this run's goroutine appended
     requests |-> << >>,    \* params.Messages of each remote call of the run
     emitted |-> << >>,     \* the events this run's goroutine sent
     stream |-> << >>]      \* the events received from this run's channel

InitTwo ==
    /\ maxIterations = 2
    /\ tools \in { << ToolA >>, << ToolA, ToolB >> }
    /\ systemPrompt = "sys"
    /\ instructions = "ins"
    /\ messages = << >>
    /\ history = << >>
    /\ pc = "idle"
    /\ iteration = 0
    /\ response = NoReply
    /\ callIdx = 0
    /\ err = NoError
    /\ pending = NoResponse
    /\ cancelled = FALSE
    /\ completion = ZeroCompletion
    /\ result = NoResult
    /\ trace = << >>
    /\ calc = NoCalc
    /\ started = NotReturned
    /\ reading = TRUE
    /\ runs = [r \in Runs |-> IdleRun(r)]

single == << history, pc, iteration, response, callIdx, err, pending, cancelled,
            completion, result, trace >>

\* Variant: params.Messages is one slice kept on the Agent.
AppendTurnShared(rs, r, turn) ==
    [q \in DOMAIN rs |->
        IF q = r
        THEN [rs[q] EXCEPT !.history = Append(@, turn), !.own = Append(@, turn)]
        ELSE [rs[q] EXCEPT !.history = Append(@, turn)]]

\* agent.go 180, 218-225: append to the params.Messages of the run.
AppendTurn(rs, r, turn) ==
    [rs EXCEPT ![r].history = Append(@, turn), ![r].own = Append(@, turn)]

\* agent.go 170, 185, 235: the goroutine of a run blocks sending on the
\* run's channel.
Post(st, ev, p) ==
    [st EXCEPT !.pending = ev, !.emitted = Append(@, ev), !.pc = p]

\* An unrecovered panic in either goroutine has ended the process.
Crashed == \E q \in Runs : runs[q].pc = "crashed"

\* agent.go 130-157: the call builds its own history and channel.
RunStart(r) ==
    /\ ~Crashed
    /\ runs[r].pc = "idle"
    /\ runs' = [runs EXCEPT
                  ![r].history = buildMessages(systemPrompt, instructions,
                                               runs[r].messages),
                  ![r].pc = "loop"]
    /\ UNCHANGED << config, single, calc, started, reading >>

\* agent.go 164-173 in run r.
RunCallOk(r) ==
    /\ ~Crashed
    /\ runs[r].pc = "loop"
    /\ LoopCond(runs[r].iteration, maxIterations)
    /\ \E reply \in RunReplies(r, runs[r].iteration + 1) :
          runs' = [runs EXCEPT
                     ![r] = Post([runs[r] EXCEPT
                                     !.response = reply,
                                     !.requests = Append(@, runs[r].history)],
                                 NewUsageResponse(reply.usage), "send_usage")]
    /\ UNCHANGED << config, single, calc, started, reading >>

\* agent.go 164-167 in run r.
RunCallErr(r) ==
    /\ ~Crashed
    /\ runs[r].pc = "loop"
    /\ LoopCond(runs[r].iteration, maxIterations)
    /\ runs' = [runs EXCEPT
                  ![r] = Post([runs[r] EXCEPT
                                  !.requests = Append(@, runs[r].history)],
                              NewErrorResponse("transport"), "send_error")]
    /\ UNCHANGED << config, single, calc, started, reading >>

\* agent.go 162, 232 in run r.
RunLoopExit(r) ==
    /\ ~Crashed
    /\ runs[r].pc = "loop"
    /\ ~LoopCond(runs[r].iteration, maxIterations)
    /\ runs' = [runs EXCEPT ![r].pc = "close"]
    /\ UNCHANGED << config, single, calc, started, reading >>

\* The consumer of run r receives from the channel of run r.
RunReceive(r) ==
    /\ ~Crashed
    /\ runs[r].pc \in {"send_usage", "send_content", "send_error"}
    /\ runs' = [runs EXCEPT
                  ![r].stream = Append(@, runs[r].pending),
                  ![r].pending = NoResponse,
                  ![r].pc = NextPcAfterSend(@)]
    /\ UNCHANGED << config, single, calc, started, reading >>

\* agent.go 176-186 in run r.
RunInspect(r) ==
    /\ ~Crashed
    /\ runs[r].pc = "inspect"
    /\ LET reply == runs[r].response
           kept == IF ShouldAppendReply(reply)
                   THEN AppendTurn(runs, r, ToParam(reply)) ELSE runs
       IN  runs' = IF HasContent(reply)
                   THEN [kept EXCEPT
                           ![r] = Post(kept[r], NewContentResponse(reply.content),
                                       "send_content")]
                   ELSE [kept EXCEPT ![r].pc = "dispatch"]
    /\ UNCHANGED << config, single, calc, started, reading >>

\* agent.go 189-190, 227-230 in run r.
RunDispatch(r) ==
    /\ ~Crashed
    /\ runs[r].pc = "dispatch"
    /\ runs' = IF HasToolCalls(runs[r].response)
               THEN [runs EXCEPT ![r].pc = "tool", ![r].callIdx = 1]
               ELSE [runs EXCEPT ![r].pc = "close"]
    /\ UNCHANGED << config, single, calc, started, reading >>

RunAtToolCall(r) ==
    runs[r].pc = "tool" /\ runs[r].callIdx <= Len(runs[r].response.toolCalls)

RunCurrentCall(r) == runs[r].response.toolCalls[runs[r].callIdx]

\* agent.go 201-204 in run r.
RunToolDecodeErr(r) ==
    /\ ~Crashed
    /\ RunAtToolCall(r)
    /\ ~UnmarshalOk(RunCurrentCall(r).args)
    /\ runs' = [runs EXCEPT
                  ![r] = Post(runs[r], NewErrorResponse("decode"), "send_error")]
    /\ UNCHANGED << config, single, calc, started, reading >>

\* agent.go 192-205 in run r: the nil-interface call panics; the deferred
\* close of run r's channel runs, then the process ends.
RunToolMissing(r) ==
    /\ ~Crashed
    /\ RunAtToolCall(r)
    /\ UnmarshalOk(RunCurrentCall(r).args)
    /\ LookupTool(tools, RunCurrentCall(r).name) = NoTool
    /\ runs' = [runs EXCEPT ![r].pc = "crashed"]
    /\ UNCHANGED << config, single, calc, started, reading >>

\* agent.go 205-208 in run r.
RunToolExecErr(r) ==
    /\ ~Crashed
    /\ RunAtToolCall(r)
    /\ UnmarshalOk(RunCurrentCall(r).args)
    /\ LookupTool(tools, RunCurrentCall(r).name) # NoTool
    /\ runs' = [runs EXCEPT
                  ![r] = Post(runs[r], NewErrorResponse("exec"), "send_error")]
    /\ UNCHANGED << config, single, calc, started, reading >>

\* agent.go 205-225 in run r.
RunToolExecOk(r) ==
    /\ ~Crashed
    /\ RunAtToolCall(r)
    /\ UnmarshalOk(RunCurrentCall(r).args)
    /\ LookupTool(tools, RunCurrentCall(r).name) # NoTool
    /\ \E v \in LookupTool(tools, RunCurrentCall(r).name).returns :
          runs' = IF ResultOk(v)
                  THEN [AppendTurn(runs, r,
                                   ToolMessage(ResultText(v), RunCurrentCall(r).id))
                          EXCEPT ![r].callIdx = @ + 1]
                  ELSE [runs EXCEPT
                          ![r] = Post(runs[r], NewErrorResponse("marshal"),
                                      "send_error")]
    /\ UNCHANGED << config, single, calc, started, reading >>

\* agent.go 226, 231, 162 in run r.
RunNextIteration(r) ==
    /\ ~Crashed
    /\ runs[r].pc = "tool"
    /\ runs[r].callIdx > Len(runs[r].response.toolCalls)
    /\ runs' = [runs EXCEPT ![r].iteration = @ + 1, ![r].pc = "loop"]
    /\ UNCHANGED << config, single, calc, started, reading >>

\* agent.go 160 in run r.
RunClose(r) ==
    /\ ~Crashed
    /\ runs[r].pc = "close"
    /\ runs' = [runs EXCEPT ![r].pc = "done"]
    /\ UNCHANGED << config, single, calc, started, reading >>

NextTwo ==
    \E r \in Runs :
        \/ RunStart(r)
        \/ RunCallOk(r)
        \/ RunCallErr(r)
        \/ RunLoopExit(r)
        \/ RunReceive(r)
        \/ RunInspect(r)
        \/ RunDispatch(r)
        \/ RunToolDecodeErr(r)
        \/ RunToolMissing(r)
        \/ RunToolExecErr(r)
        \/ RunToolExecOk(r)
        \/ RunNextIteration(r)
        \/ RunClose(r)

\* Two calls on one Agent, their steps interleaved in every order.
SpecTwo == InitTwo /\ [][NextTwo]_vars

(***************************************************************************)
(* Calls of the constructors and converters on their own.  A call is       *)
(* drawn with its argument; its step computes the result.                  *)
(***************************************************************************)
MaxMsgs == 2
MaxOpts == 2

Texts == {"", "Hello", "4"}

Files == { NoFile,
           [Data |-> << 77 >>, Name |-> "f.txt"],
           [Data |-> << 1, 2, 3, 4 >>, Name |-> "g"] }

Images == { NoImage, [Data |-> << 9, 8 >>] }

Usages == {ZeroUsage, Usage4, Usage12}

Errors == {NoError, "transport", "exec"}

\* A Message whose role is none of the three constants.
UnknownRoleMessage ==
    [Role |-> "tool", Kind |-> MessageKindText, text |-> "Test", file |-> NoFile]

\* The messages the lists handed to convertMessages are made of.
ListMessages ==
    { SystemMessage("Hello"), UserTextMessage("4"), UserTextMessage(""),
      AssistantTextMessage("Hello"),
      UserFileMessage([Data |-> << 77 >>, Name |-> "f.txt"]),
      UserImageMessage([Data |-> << 9, 8 >>]),
      UnknownRoleMessage }

SeqsUpTo(S, n) == UNION { [1..k -> S] : k \in 0..n }

\* The options NewAgent is called with (agent.go 16-42).
\* An option is the field its closure assigns and the value it captured.
Option(field, text, ts, num) == [field |-> field, text |-> text, tools |-> ts, num |-> num]

WithSystemPrompt(prompt) == Option("systemPrompt", prompt, << >>, 0)

WithInstructions(instr) == Option("instructions", instr, << >>, 0)

WithTools(ts) == Option("tools", "", ts, 0)

WithMaxIterations(max) == Option("maxIterations", "", << >>, max)

Options ==
    { WithSystemPrompt("sys"), WithSystemPrompt(""), WithInstructions("ins"),
      WithTools(<< ToolA >>), WithMaxIterations(0), WithMaxIterations(5) }

DefaultMaxIterations == 100

\* agent.go 62-69: the Agent before the options are applied.
DefaultAgent(model) ==
    [model |-> model, tools |-> << >>, maxIterations |-> DefaultMaxIterations,
     systemPrompt |-> "", instructions |-> ""]

\* agent.go 17-41: what the option's closure assigns.
ApplyOption(a, opt) ==
    CASE opt.field = "systemPrompt" -> [a EXCEPT !.systemPrompt = opt.text]
      [] opt.field = "instructions" -> [a EXCEPT !.instructions = opt.text]
      [] opt.field = "tools" -> [a EXCEPT !.tools = opt.tools]
      [] opt.field = "maxIterations" -> [a EXCEPT !.maxIterations = opt.num]

\* Variant: the options are applied from the last to the first.
RECURSIVE ApplyOptionsBackwards(_, _)
ApplyOptionsBackwards(a, opts) ==
    IF opts = << >> THEN a
    ELSE ApplyOption(ApplyOptionsBackwards(a, Tail(opts)), Head(opts))

\* agent.go 72-74: `for _, opt := range opts { opt(agent) }`.
RECURSIVE ApplyOptions(_, _)
ApplyOptions(a, opts) ==
    IF opts = << >> THEN a
    ELSE ApplyOptions(ApplyOption(a, Head(opts)), Tail(opts))

\* agent.go 55-77.
NewAgent(model, opts) == ApplyOptions(DefaultAgent(model), opts)

Call(fn, x) == [fn |-> fn, in |-> x, out |-> << >>, done |-> FALSE]

InitValues ==
    /\ maxIterations = 0
    /\ tools = << >>
    /\ systemPrompt = ""
    /\ instructions = ""
    /\ messages = << >>
    /\ history = << >>
    /\ pc = "idle"
    /\ iteration = 0
    /\ response = NoReply
    /\ callIdx = 0
    /\ err = NoError
    /\ pending = NoResponse
    /\ cancelled = FALSE
    /\ completion = ZeroCompletion
    /\ result = NoResult
    /\ trace = << >>
    /\ runs = << >>
    /\ started = NotReturned
    /\ reading = TRUE
    /\ \/ \E fn \in {"UserTextMessage", "AssistantTextMessage", "SystemMessage",
                     "NewContentResponse"} :
             \E x \in Texts : calc = Call(fn, x)
       \/ \E x \in Files : calc = Call("UserFileMessage", x)
       \/ \E x \in Images : calc = Call("UserImageMessage", x)
       \/ \E x \in Usages : calc = Call("NewUsageResponse", x)
       \/ \E x \in Errors : calc = Call("NewErrorResponse", x)
       \/ \E x \in SeqsUpTo(ListMessages, MaxMsgs) : calc = Call("convertMessages", x)
       \/ \E x \in SeqsUpTo(Options, MaxOpts) : calc = Call("NewAgent", x)

Returns(fn, out) ==
    /\ calc.fn = fn
    /\ ~calc.done
    /\ calc' = [calc EXCEPT !.out = out, !.done = TRUE]
    /\ UNCHANGED << config, single, runs, started, reading >>

CallUserTextMessage == Returns("UserTextMessage", UserTextMessage(calc.in))

CallUserFileMessage == Returns("UserFileMessage", UserFileMessage(calc.in))

CallUserImageMessage == Returns("UserImageMessage", UserImageMessage(calc.in))

CallAssistantTextMessage ==
    Returns("AssistantTextMessage", AssistantTextMessage(calc.in))

CallSystemMessage == Returns("SystemMessage", SystemMessage(calc.in))

CallNewContentResponse == Returns("NewContentResponse", NewContentResponse(calc.in))

CallNewUsageResponse == Returns("NewUsageResponse", NewUsageResponse(calc.in))

CallNewErrorResponse == Returns("NewErrorResponse", NewErrorResponse(calc.in))

CallConvertMessages == Returns("convertMessages", convertMessages(calc.in))

CallNewAgent == Returns("NewAgent", NewAgent("gpt-4", calc.in))

NextValues ==
    \/ CallUserTextMessage
    \/ CallUserFileMessage
    \/ CallUserImageMessage
    \/ CallAssistantTextMessage
    \/ CallSystemMessage
    \/ CallNewContentResponse
    \/ CallNewUsageResponse
    \/ CallNewErrorResponse
    \/ CallConvertMessages
    \/ CallNewAgent

SpecValues == InitValues /\ [][NextValues]_vars

(***************************************************************************)
(* Observations over the log.                                              *)
(***************************************************************************)
Idx(op) == { i \in DOMAIN trace : trace[i].op = op }

Sends == SelectSeq(trace, LAMBDA e : e.op = "send")

\* The events delivered on the stream, in order.
Events == [i \in 1..Len(Sends) |-> Sends[i].ev]

ErrorEvents == { i \in DOMAIN Events : IsErrorResponse(Events[i]) }

NumCalls == Cardinality(Idx("call"))

Failed(op) == \E i \in Idx(op) : ~trace[i].ok

Closed == Idx("close") # {}

\* The run ends with one Error event carrying e, followed by the close.
EndsWithError(e) ==
    /\ Cardinality(ErrorEvents) = 1
    /\ Len(Events) \in ErrorEvents
    /\ Events[Len(Events)] = NewErrorResponse(e)
    /\ Len(trace) >= 2
    /\ trace[Len(trace)].op = "close"
    /\ trace[Len(trace) - 1].op = "send"
    /\ trace[Len(trace) - 1].ev = NewErrorResponse(e)

(***************************************************************************)
(* C1: on every exit path of the background task the stream is closed,     *)
(* exactly once, and nothing is sent on it after the close: the close is   *)
(* logged once the task has ended and not before, at most once, as the     *)
(* last entry of the log, and no send is left pending.                     *)
(***************************************************************************)
C1_ClosedExactlyOnce ==
    /\ Cardinality(Idx("close")) <= 1
    /\ pc \in {"done", "crashed"} <=> Cardinality(Idx("close")) = 1
    /\ \A i \in Idx("close") : i = Len(trace)
    /\ pc = "done" => pending = NoResponse

C1_Witness ==
    /\ pc = "done"
    /\ Failed("marshal")
    /\ Cardinality(Idx("close")) = 1
    /\ Len(Events) >= 3

(***************************************************************************)
(* C2: a failed remote call or an undecodable argument payload ends the    *)
(* run with exactly one Error event, which is the last event and is        *)
(* followed by the close; an Error event is never followed by another      *)
(* event; a run that ends without any failure has no Error event.          *)
(***************************************************************************)
AnyFailure == Failed("call") \/ Failed("decode") \/ Failed("exec") \/ Failed("marshal")

C2_ErrorIsTerminal ==
    /\ \A i \in ErrorEvents : i = Len(Events)
    /\ (pc = "done" /\ Failed("call")) => EndsWithError("transport")
    /\ (pc = "done" /\ Failed("decode")) => EndsWithError("decode")
    /\ (pc = "done" /\ ~AnyFailure) => ErrorEvents = {}

C2_Witness ==
    /\ pc = "done"
    /\ Failed("decode")
    /\ NumCalls = 2
    /\ EndsWithError("decode")

(***************************************************************************)
(* C3: once a tool's Execute has returned an error, no remote call and no  *)
(* tool execution follows, and the run ends with exactly one Error event   *)
(* followed by the close.                                                  *)
(***************************************************************************)
C3_ToolErrorAborts ==
    /\ \A i \in Idx("exec") :
          ~trace[i].ok =>
              \A j \in DOMAIN trace : j > i => trace[j].op \in {"send", "close"}
    /\ (pc = "done" /\ Failed("exec")) =>
          /\ EndsWithError("exec")
          /\ Len(trace) >= 3
          /\ trace[Len(trace) - 2].op = "exec"
          /\ ~trace[Len(trace) - 2].ok

C3_Witness ==
    /\ pc = "done"
    /\ Failed("exec")
    /\ callIdx = 2
    /\ NumCalls = 1
    /\ NumCalls < maxIterations

(***************************************************************************)
(* C4: a tool-call request whose name matches no registered tool is        *)
(* skipped: the step that handles it moves on to the next tool call        *)
(* without executing a tool, without an error and without a fault.         *)
(***************************************************************************)
C4_UnknownToolSkipped ==
    [][ ( /\ pc = "tool"
          /\ callIdx <= Len(response.toolCalls)
          /\ UnmarshalOk(response.toolCalls[callIdx].args)
          /\ LookupTool(tools, response.toolCalls[callIdx].name) = NoTool )
        => ( /\ pc' = "tool"
             /\ callIdx' = callIdx + 1
             /\ err' = NoError
             /\ trace' = trace ) ]_vars

(***************************************************************************)
(* C5 as stated: the number of remote calls never exceeds maxIterations.   *)
(***************************************************************************)
C5_CallsAtMostMaxIterations == NumCalls <= maxIterations

(***************************************************************************)
(* C5: the number of remote calls never exceeds maxIterations when         *)
(* maxIterations is not negative, and no remote call is made when it is    *)
(* negative.                                                               *)
(***************************************************************************)
C5_CallsWithinCap ==
    /\ maxIterations >= 0 => NumCalls <= maxIterations
    /\ maxIterations < 0 => NumCalls = 0

C5_Witness ==
    /\ pc = "done"
    /\ maxIterations = MaxIter
    /\ NumCalls = maxIterations
    /\ iteration = maxIterations

(***************************************************************************)
(* C6: with maxIterations >= 1, when every reply requests tool calls that  *)
(* all resolve to registered tools and every tool succeeds, the run ends   *)
(* after exactly maxIterations remote calls, with no Error event, and the  *)
(* stream is closed.                                                       *)
(***************************************************************************)
Resolves(call) == LookupTool(tools, call.name) # NoTool /\ UnmarshalOk(call.args)

EveryReplyRequestsTools ==
    \A i \in Idx("call") :
        /\ trace[i].ok
        /\ HasToolCalls(trace[i].reply)
        /\ \A n \in DOMAIN trace[i].reply.toolCalls : Resolves(trace[i].reply.toolCalls[n])

C6_SilentCeiling ==
    ( /\ pc = "done"
      /\ maxIterations >= 1
      /\ EveryReplyRequestsTools
      /\ ~Failed("exec")
      /\ ~Failed("marshal") )
    => ( /\ NumCalls = maxIterations
         /\ ErrorEvents = {}
         /\ err = NoError
         /\ trace[Len(trace)].op = "close"
         /\ Cardinality(Idx("close")) = 1 )

C6_Witness ==
    /\ pc = "done"
    /\ maxIterations = MaxIter
    /\ EveryReplyRequestsTools
    /\ ~Failed("exec")
    /\ ~Failed("marshal")
    /\ NumCalls = maxIterations
    /\ \E i \in Idx("exec") : trace[i].call.name = "b"

(***************************************************************************)
(* C7: for a text-only message list, when the first reply carries no tool  *)
(* calls the run is exactly: one remote call, the Usage event of that      *)
(* reply, one Content event with the reply text if and only if the text    *)
(* is not empty, the close.  No tool runs and no Error event is emitted.   *)
(***************************************************************************)
TextOnly(msgs) == \A i \in DOMAIN msgs : msgs[i].Kind = MessageKindText

FirstReplyHasNoToolCalls ==
    /\ trace # << >>
    /\ trace[1].op = "call"
    /\ trace[1].ok
    /\ ~HasToolCalls(trace[1].reply)

C7_ToollessReply ==
    (pc = "done" /\ TextOnly(messages) /\ FirstReplyHasNoToolCalls) =>
        /\ NumCalls = 1
        /\ Idx("exec") = {}
        /\ Events = << NewUsageResponse(trace[1].reply.usage) >>
                    \o (IF trace[1].reply.content # ""
                        THEN << NewContentResponse(trace[1].reply.content) >>
                        ELSE << >>)
        /\ Len(trace) = Len(Events) + 2
        /\ trace[Len(trace)].op = "close"

C7_Witness ==
    /\ pc = "done"
    /\ messages = TextOnlyList
    /\ FirstReplyHasNoToolCalls
    /\ maxIterations = MaxIter
    /\ Events = << NewUsageResponse(Usage12), NewContentResponse("4") >>

(***************************************************************************)
(* Iterations as the log shows them.                                       *)
(***************************************************************************)
\* Position in the log of the k-th remote call.
CallPos(k) ==
    CHOOSE i \in Idx("call") : Cardinality({ j \in Idx("call") : j <= i }) = k

\* The tool executions logged between positions i and j, in order.
ExecsBetween(i, j) ==
    SelectSeq(SubSeq(trace, i, j), LAMBDA e : e.op = "exec")

\* The turns one completed iteration adds for a reply with tool calls:
\* the model turn, then one tool-result turn per request, in request order.
IsIterationTurns(turns, reply) ==
    /\ Len(turns) = 1 + Len(reply.toolCalls)
    /\ turns[1] = ToParam(reply)
    /\ \A n \in DOMAIN reply.toolCalls :
          /\ turns[1 + n].role = "tool"
          /\ turns[1 + n].id = reply.toolCalls[n].id

Suffix(seq, from) == SubSeq(seq, from + 1, Len(seq))

(***************************************************************************)
(* C8: when the N >= 1 tool calls of a reply all resolve and succeed, the  *)
(* tools are executed in request order, one tool-result turn per request   *)
(* is appended in that order after the model turn, and the next remote     *)
(* request carries the previous request's history plus these 1 + N turns.  *)
(***************************************************************************)
C8_ToolResultsAppended ==
    /\ \A k \in 1..(NumCalls - 1) :
          LET i == CallPos(k)
              j == CallPos(k + 1)
              reply == trace[i].reply
              N == Len(reply.toolCalls)
              execs == ExecsBetween(i, j)
          IN  /\ N >= 1
              /\ Len(execs) = N
              /\ \A n \in 1..N : execs[n].call = reply.toolCalls[n] /\ execs[n].ok
              /\ Len(trace[j].request) = Len(trace[i].request) + 1 + N
              /\ SubSeq(trace[j].request, 1, Len(trace[i].request)) = trace[i].request
              /\ IsIterationTurns(Suffix(trace[j].request, Len(trace[i].request)), reply)
    /\ (pc = "tool" /\ callIdx > Len(response.toolCalls)) =>
          LET i == CallPos(NumCalls)
          IN  /\ Len(history) = Len(trace[i].request) + 1 + Len(response.toolCalls)
              /\ IsIterationTurns(Suffix(history, Len(trace[i].request)), response)

C8_Witness ==
    /\ NumCalls = 2
    /\ Len(trace[CallPos(1)].reply.toolCalls) = MaxCalls
    /\ trace[CallPos(1)].reply.content = ""
    /\ trace[CallPos(1)].reply.toolCalls[1].name = "b"
    /\ trace[CallPos(1)].reply.toolCalls[2].name = "a"
    /\ Len(trace[CallPos(2)].request) = Len(trace[CallPos(1)].request) + 1 + MaxCalls

(***************************************************************************)
(* C9: in the history of every remote request after the first, each        *)
(* tool-call request of a model turn is answered by exactly one            *)
(* tool-result turn with its identifier, placed after the model turn and   *)
(* before the next model turn, and every tool-result turn answers a        *)
(* request of the model turn before it.                                    *)
(***************************************************************************)
\* The model turn that precedes position q of history h (0 if none).
ModelTurnBefore(h, q) ==
    LET ps == { p \in 1..(q - 1) : h[p].role = "assistant" /\ h[p].calls # << >> }
    IN  IF ps = {} THEN 0 ELSE CHOOSE p \in ps : \A r \in ps : r <= p

OneToOne(h) ==
    /\ \A p \in DOMAIN h :
          \A n \in DOMAIN h[p].calls :
              LET qs == { q \in DOMAIN h : h[q].role = "tool" /\ h[q].id = h[p].calls[n].id }
              IN  /\ Cardinality(qs) = 1
                  /\ \A q \in qs : q > p /\ ModelTurnBefore(h, q) = p
    /\ \A q \in DOMAIN h :
          h[q].role = "tool" =>
              /\ ModelTurnBefore(h, q) # 0
              /\ \E n \in DOMAIN h[ModelTurnBefore(h, q)].calls :
                    h[ModelTurnBefore(h, q)].calls[n].id = h[q].id

C9_CallsAnswered ==
    \A k \in 2..NumCalls : OneToOne(trace[CallPos(k)].request)

C9_Witness ==
    /\ NumCalls = 2
    /\ Len(trace[CallPos(1)].reply.toolCalls) = MaxCalls
    /\ Cardinality({ q \in DOMAIN trace[CallPos(2)].request :
                        trace[CallPos(2)].request[q].role = "tool" }) = MaxCalls

(***************************************************************************)
(* C10: each iteration runs in the order remote call, Usage event, Content *)
(* event (if the reply has text), tool executions: a successful remote     *)
(* call is directly followed by its Usage event, every Content event       *)
(* directly follows the Usage event of its own iteration, a tool runs only *)
(* after the Usage event and (if the reply has text) the Content event of  *)
(* its iteration, and the Usage event of the next iteration comes after    *)
(* all tool executions of the iteration before.                            *)
(***************************************************************************)
IsSendOf(e, kind) == e.op = "send" /\ e.ev.Kind = kind

\* The reply of the iteration a log entry belongs to.
ReplyOf(e) == trace[CallPos(e.iter + 1)].reply

C10_IterationOrder ==
    /\ \A i \in Idx("call") :
          (trace[i].ok /\ i < Len(trace)) =>
              /\ trace[i + 1].op = "send"
              /\ trace[i + 1].ev = NewUsageResponse(trace[i].reply.usage)
              /\ trace[i + 1].iter = trace[i].iter
    /\ \A i \in Idx("send") :
          /\ IsSendOf(trace[i], ResponseKindUsage) =>
                i > 1 /\ trace[i - 1].op = "call" /\ trace[i - 1].ok
          /\ IsSendOf(trace[i], ResponseKindContent) =>
                /\ i > 2
                /\ IsSendOf(trace[i - 1], ResponseKindUsage)
                /\ trace[i - 1].iter = trace[i].iter
                /\ trace[i - 2].op = "call"
                /\ trace[i].ev = NewContentResponse(trace[i - 2].reply.content)
                /\ trace[i - 2].reply.content # ""
    /\ \A i \in Idx("exec") :
          LET c == CallPos(trace[i].iter + 1)
          IN  /\ c < i
              /\ IsSendOf(trace[c + 1], ResponseKindUsage)
              /\ ReplyOf(trace[i]).content # "" =>
                    (c + 2 < i /\ IsSendOf(trace[c + 2], ResponseKindContent))
              /\ \A j \in (c + 1)..i : trace[j].op \in {"send", "exec"}
    /\ \A j \in Idx("send") :
          (IsSendOf(trace[j], ResponseKindUsage) /\ trace[j].iter >= 1) =>
              LET prev == { i \in Idx("exec") : trace[i].iter = trace[j].iter - 1 }
              IN  /\ \A i \in prev : i < j
                  /\ Cardinality(prev) = Len(trace[CallPos(trace[j].iter)].reply.toolCalls)
                  /\ \A i \in Idx("exec") : i < j => trace[i].iter < trace[j].iter

C10_Witness ==
    /\ Len(trace) >= 7
    /\ trace[1].op = "call"
    /\ IsSendOf(trace[2], ResponseKindUsage)
    /\ IsSendOf(trace[3], ResponseKindContent)
    /\ trace[4].op = "exec"
    /\ trace[5].op = "exec"
    /\ trace[6].op = "call"
    /\ IsSendOf(trace[7], ResponseKindUsage)
    /\ trace[7].iter = 1

(***************************************************************************)
(* C11: the stream is an unbuffered hand-off.  An event is pending exactly *)
(* while the goroutine is blocked in a send; while it is pending no remote *)
(* call and no tool execution is logged, the only step of the log is its   *)
(* delivery; a new event is emitted only when none is pending; and the     *)
(* consumer has received exactly the delivered events, in order.           *)
(***************************************************************************)
C11_UnbufferedHandOff ==
    /\ [](pending # NoResponse <=> Sending)
    /\ [](completion.Responses = Events)
    /\ [][ /\ pending # NoResponse =>
                \/ trace' = trace /\ pending' = pending
                \/ /\ trace' = Append(trace, Entry("send", pending, NoReply, NoCall, TRUE))
                   /\ pending' = NoResponse
                   /\ completion'.Responses = Append(completion.Responses, pending)
           /\ (pending' # pending /\ pending' # NoResponse) => pending = NoResponse ]_vars

C11_Witness ==
    /\ pc = "tool"
    /\ callIdx = 2
    /\ iteration = 1
    /\ Len(Events) = 4
    /\ completion.Responses = Events
    /\ IsContentResponse(Events[4])

(***************************************************************************)
(* C12: when the consumer keeps reading and every remote call and tool     *)
(* execution returns, every run eventually closes the stream.              *)
(***************************************************************************)
C12_EventuallyClosed == <>Closed

C12_Witness ==
    /\ Closed
    /\ pc = "done"
    /\ NumCalls = MaxIter
    /\ Cardinality(Idx("exec")) >= MaxIter

(***************************************************************************)
(* C13: when the context is cancelled while a remote call or a tool        *)
(* execution is in flight, that operation returns an error, nothing but    *)
(* the Error event and the close follow it, and the run ends with exactly  *)
(* one Error event: no further remote call or tool execution is started.   *)
(***************************************************************************)
C13_CancelUnwinds ==
    \A i \in Idx("cancel") :
        trace[i].ok =>
            /\ i < Len(trace) =>
                  /\ trace[i + 1].op \in {"call", "exec"}
                  /\ ~trace[i + 1].ok
            /\ \A j \in DOMAIN trace : j > i + 1 => trace[j].op \in {"send", "close"}
            /\ pc = "done" =>
                  /\ EndsWithError("context canceled")
                  /\ Len(trace) = i + 3

C13_Witness ==
    /\ pc = "done"
    /\ \E i \in Idx("cancel") :
          /\ trace[i].ok
          /\ trace[i].at = "tool"
          /\ trace[i + 1].op = "exec"
          /\ trace[i + 1].call.id = << 1, 1 >>
    /\ Len(response.toolCalls) = MaxCalls
    /\ maxIterations = MaxIter
    /\ EndsWithError("context canceled")

(***************************************************************************)
(* What the stream carried, computed from the log.                         *)
(***************************************************************************)
UsageEvents == SelectSeq(Events, IsUsageResponse)

ContentEvents == SelectSeq(Events, IsContentResponse)

RECURSIVE SumSeq(_)
SumSeq(ns) == IF ns = << >> THEN 0 ELSE Head(ns) + SumSeq(Tail(ns))

(***************************************************************************)
(* C14: when ChatCompletion returns from a run without Error event, its    *)
(* error is nil and each Usage field of the aggregate is the sum of that   *)
(* field over the Usage events of the run, one per successful remote call. *)
(***************************************************************************)
C14_UsageSummed ==
    (result.returned /\ ErrorEvents = {}) =>
        /\ result.err = NoError
        /\ Len(UsageEvents) = NumCalls
        /\ result.completion.Usage.PromptTokens =
              SumSeq([i \in DOMAIN UsageEvents |-> UsageEvents[i].usage.PromptTokens])
        /\ result.completion.Usage.CompletionTokens =
              SumSeq([i \in DOMAIN UsageEvents |-> UsageEvents[i].usage.CompletionTokens])
        /\ result.completion.Usage.TotalTokens =
              SumSeq([i \in DOMAIN UsageEvents |-> UsageEvents[i].usage.TotalTokens])

C14_Witness ==
    /\ result.returned
    /\ result.err = NoError
    /\ pc = "done"
    /\ UsageEvents = << NewUsageResponse(Usage12), NewUsageResponse(Usage4) >>
    /\ result.completion.Usage =
          [PromptTokens |-> 13, CompletionTokens |-> 3, TotalTokens |-> 16]

(***************************************************************************)
(* C15: when ChatCompletion returns from a run without Error event,        *)
(* Responses is the sequence of stream events in emission order and        *)
(* Messages is the sequence of the texts of the Content events; for the    *)
(* single reply "4" with usage 10/2/12, Messages = <<"4">> and the total   *)
(* is 12.                                                                  *)
(***************************************************************************)
C15_AggregateOfStream ==
    /\ (result.returned /\ ErrorEvents = {}) =>
          /\ result.completion.Responses = Events
          /\ result.completion.Messages =
                [i \in DOMAIN ContentEvents |-> ContentEvents[i].content]
    /\ (result.returned /\ Events = << NewUsageResponse(Usage12), NewContentResponse("4") >>) =>
          /\ result.completion.Messages = << "4" >>
          /\ result.completion.Usage.TotalTokens = 12

C15_Witness ==
    /\ result.returned
    /\ result.err = NoError
    /\ Events = << NewUsageResponse(Usage12), NewContentResponse("4") >>
    /\ result.completion.Messages = << "4" >>
    /\ result.completion.Usage.TotalTokens = 12

(***************************************************************************)
(* C16: once the stream has carried an Error event, ChatCompletion has     *)
(* returned that error with the zero Completion: nothing gathered before   *)
(* the error is exposed.                                                   *)
(***************************************************************************)
C16_ErrorDiscardsPartial ==
    ErrorEvents # {} =>
        /\ result.returned
        /\ result.err = Events[Len(Events)].err
        /\ result.err # NoError
        /\ result.completion = ZeroCompletion

C16_Witness ==
    /\ result.returned
    /\ result.err = "exec"
    /\ result.completion = ZeroCompletion
    /\ Len(ContentEvents) = 2
    /\ completion.Messages = << "4", "4" >>

(***************************************************************************)
(* C17: two runs started concurrently on the same Agent are isolated.  In  *)
(* every interleaving the history of each run, and every history it sent   *)
(* to the remote service, is the turns built from that run's own messages  *)
(* followed by turns that run appended itself; no turn appended by the     *)
(* other run occurs in it; and the events received from a run's channel    *)
(* are exactly the events that run's goroutine sent, in order.             *)
(***************************************************************************)
RunBase(r) == buildMessages(systemPrompt, instructions, runs[r].messages)

\* h is the run's initial turns followed by a prefix of its own appends.
OwnHistory(r, h) ==
    \E n \in 0..Len(runs[r].own) : h = RunBase(r) \o SubSeq(runs[r].own, 1, n)

Turns(h) == { h[i] : i \in DOMAIN h }

\* The events of run r that have been received: all it sent but the one
\* it is blocked on.
Handed(r) ==
    IF runs[r].pending = NoResponse THEN runs[r].emitted
    ELSE SubSeq(runs[r].emitted, 1, Len(runs[r].emitted) - 1)

C17_RunsIsolated ==
    \A r \in Runs :
        /\ runs[r].pc # "idle" => runs[r].history = RunBase(r) \o runs[r].own
        /\ \A i \in DOMAIN runs[r].requests : OwnHistory(r, runs[r].requests[i])
        /\ \A q \in Runs \ {r} :
              /\ Turns(runs[q].own) \cap Turns(runs[r].history) = {}
              /\ \A i \in DOMAIN runs[r].requests :
                    Turns(runs[q].own) \cap Turns(runs[r].requests[i]) = {}
        /\ runs[r].stream = Handed(r)

\* Both runs are under way at once: each has appended a turn, has sent a
\* request carrying it and has had events received, and neither has ended.
C17_Witness ==
    \A r \in Runs :
        /\ runs[r].pc \in {"send_usage", "inspect", "send_content", "dispatch", "tool"}
        /\ Len(runs[r].own) >= 2
        /\ Len(runs[r].requests) = 2
        /\ Len(runs[r].stream) >= 2

(***************************************************************************)
(* C18: no step of a run changes the Agent's configuration (tools,         *)
(* maxIterations, system prompt, instructions) or the caller's message     *)
(* list; the first request is still the one built from them.               *)
(***************************************************************************)
C18_ConfigReadOnly ==
    /\ [][ /\ maxIterations' = maxIterations
           /\ tools' = tools
           /\ systemPrompt' = systemPrompt
           /\ instructions' = instructions
           /\ messages' = messages ]_vars
    /\ [](NumCalls >= 1 =>
             trace[CallPos(1)].request = buildMessages(systemPrompt, instructions, messages))

C18_Witness ==
    /\ result.returned
    /\ pc = "done"
    /\ NumCalls = MaxIter
    /\ maxIterations = MaxIter
    /\ messages = MixedList
    /\ Len(history) > Len(trace[CallPos(1)].request) + MaxIter

(***************************************************************************)
(* C19: after a successful remote call the history is the request's        *)
(* history until the reply is inspected, and afterwards it has the reply   *)
(* turn appended if and only if the reply has text or at least one         *)
(* tool-call request; a reply with neither leaves the history unchanged.   *)
(***************************************************************************)
C19_ReplyTurnAppended ==
    (NumCalls >= 1 /\ trace[CallPos(NumCalls)].ok) =>
        LET req == trace[CallPos(NumCalls)].request
            reply == trace[CallPos(NumCalls)].reply
            kept == reply.content # "" \/ Len(reply.toolCalls) >= 1
        IN  /\ pc \in {"send_usage", "inspect"} => history = req
            /\ (pc \in {"send_content", "dispatch"} \/ (pc = "tool" /\ callIdx = 1)) =>
                  history = IF kept
                            THEN req \o << [role |-> "assistant", text |-> reply.content,
                                            file |-> NoFile, calls |-> reply.toolCalls,
                                            id |-> NoId] >>
                            ELSE req
            /\ (pc = "done" /\ ~kept) => history = req

C19_Witness ==
    /\ pc = "done"
    /\ NumCalls = 2
    /\ trace[CallPos(2)].ok
    /\ trace[CallPos(2)].reply.content = ""
    /\ trace[CallPos(2)].reply.toolCalls = << >>
    /\ history = trace[CallPos(2)].request

(***************************************************************************)
(* C20: the history of the first remote request is the system prompt as a  *)
(* system turn if the prompt is not empty, then the instructions as a user *)
(* turn if they are not empty, then one turn per caller message in the     *)
(* caller's order; an empty prompt or empty instructions adds no turn.     *)
(***************************************************************************)
PromptTurns == IF systemPrompt # "" THEN 1 ELSE 0

InstructionTurns == IF instructions # "" THEN 1 ELSE 0

C20_FirstRequest ==
    NumCalls >= 1 =>
        LET h == trace[CallPos(1)].request
            off == PromptTurns + InstructionTurns
        IN  /\ Len(h) = off + Len(messages)
            /\ systemPrompt # "" =>
                  h[1].role = "system" /\ h[1].text = systemPrompt
            /\ instructions # "" =>
                  /\ h[PromptTurns + 1].role = "user"
                  /\ h[PromptTurns + 1].text = instructions
            /\ \A i \in DOMAIN messages :
                  /\ h[off + i].role = messages[i].Role
                  /\ h[off + i].text = messages[i].text
                  /\ h[off + i].file.Name = messages[i].file.Name
                  /\ h[off + i].calls = << >>

C20_Witness ==
    /\ NumCalls >= 1
    /\ systemPrompt = "sys"
    /\ instructions = "ins"
    /\ trace[CallPos(1)].request = << OpenAISystemMessage("sys"), OpenAIUserMessage("ins") >>

(***************************************************************************)
(* C21: the history of a run is append-only.  Every step leaves the        *)
(* history it found as a prefix of the history it leaves; the history of   *)
(* each remote request has the history of the request before it as a       *)
(* prefix, and the current history has the last request's as a prefix.     *)
(***************************************************************************)
IsPrefix(s, t) == Len(s) <= Len(t) /\ SubSeq(t, 1, Len(s)) = s

RequestsGrow ==
    /\ \A k \in 1..(NumCalls - 1) :
          IsPrefix(trace[CallPos(k)].request, trace[CallPos(k + 1)].request)
    /\ NumCalls >= 1 => IsPrefix(trace[CallPos(NumCalls)].request, history)

C21_AppendOnly == []RequestsGrow /\ [][IsPrefix(history, history')]_vars

C21_Witness ==
    /\ pc = "done"
    /\ NumCalls = 2
    /\ Len(trace[CallPos(2)].request) > Len(trace[CallPos(1)].request) + 1
    /\ Len(history) > Len(trace[CallPos(2)].request)

(***************************************************************************)
(* C22: a Message built by UserTextMessage, UserFileMessage,               *)
(* AssistantTextMessage or SystemMessage reports the constructor's role    *)
(* and kind, the accessor of its kind returns the payload it was built     *)
(* with, and the accessors of the other kinds return the zero value.       *)
(***************************************************************************)
IsTextMessageOf(m, role, text) ==
    /\ m.Role = role
    /\ m.Kind = MessageKindText
    /\ MsgText(m) = text
    /\ MsgFile(m) = NoFile
    /\ MsgImage(m) = NoImage

C22_MessageRoundTrip ==
    calc.done =>
        /\ calc.fn = "UserTextMessage" => IsTextMessageOf(calc.out, RoleUser, calc.in)
        /\ calc.fn = "AssistantTextMessage" =>
              IsTextMessageOf(calc.out, RoleAssistant, calc.in)
        /\ calc.fn = "SystemMessage" => IsTextMessageOf(calc.out, RoleSystem, calc.in)
        /\ calc.fn = "UserFileMessage" =>
              /\ calc.out.Role = RoleUser
              /\ calc.out.Kind = MessageKindFile
              /\ MsgFile(calc.out) = calc.in
              /\ MsgText(calc.out) = ""
              /\ MsgImage(calc.out) = NoImage

C22_Witness ==
    /\ calc.done
    /\ calc.fn = "UserFileMessage"
    /\ calc.in = [Data |-> << 77 >>, Name |-> "f.txt"]
    /\ MsgFile(calc.out) = calc.in
    /\ MsgText(calc.out) = ""

(***************************************************************************)
(* C23: a Response built by NewContentResponse, NewUsageResponse or        *)
(* NewErrorResponse answers true to exactly one of IsContentResponse,      *)
(* IsUsageResponse and IsErrorResponse, the one of its constructor; the    *)
(* accessor of that tag returns the value it was built with and the other  *)
(* two accessors return "", the zero Usage and the nil error.              *)
(***************************************************************************)
TagsOf(r) ==
    { t \in {ResponseKindContent, ResponseKindUsage, ResponseKindError} :
        \/ t = ResponseKindContent /\ IsContentResponse(r)
        \/ t = ResponseKindUsage /\ IsUsageResponse(r)
        \/ t = ResponseKindError /\ IsErrorResponse(r) }

C23_OneTag ==
    calc.done =>
        /\ calc.fn = "NewContentResponse" =>
              /\ TagsOf(calc.out) = {ResponseKindContent}
              /\ ResponseContent(calc.out) = calc.in
              /\ ResponseUsage(calc.out) = ZeroUsage
              /\ ResponseError(calc.out) = NoError
        /\ calc.fn = "NewUsageResponse" =>
              /\ TagsOf(calc.out) = {ResponseKindUsage}
              /\ ResponseUsage(calc.out) = calc.in
              /\ ResponseContent(calc.out) = ""
              /\ ResponseError(calc.out) = NoError
        /\ calc.fn = "NewErrorResponse" =>
              /\ TagsOf(calc.out) = {ResponseKindError}
              /\ ResponseError(calc.out) = calc.in
              /\ ResponseContent(calc.out) = ""
              /\ ResponseUsage(calc.out) = ZeroUsage

C23_Witness ==
    /\ calc.done
    /\ calc.fn = "NewUsageResponse"
    /\ calc.in = Usage12
    /\ ResponseUsage(calc.out) = Usage12
    /\ ~IsContentResponse(calc.out)
    /\ ~IsErrorResponse(calc.out)

(***************************************************************************)
(* C24: an Agent constructed with no options has maxIterations = 100, no   *)
(* tools, an empty system prompt and empty instructions; with options,     *)
(* each field holds the value of the last option given for it and the      *)
(* default if no option was given for it.                                  *)
(***************************************************************************)
\* The positions of the options for a field.
OptionsFor(opts, field) == { i \in DOMAIN opts : opts[i].field = field }

Last(S) == CHOOSE i \in S : \A j \in S : j <= i

C24_Options ==
    (calc.done /\ calc.fn = "NewAgent") =>
        LET opts == calc.in
            a == calc.out
            p == OptionsFor(opts, "systemPrompt")
            n == OptionsFor(opts, "instructions")
            t == OptionsFor(opts, "tools")
            m == OptionsFor(opts, "maxIterations")
        IN  /\ a.systemPrompt = IF p = {} THEN "" ELSE opts[Last(p)].text
            /\ a.instructions = IF n = {} THEN "" ELSE opts[Last(n)].text
            /\ a.tools = IF t = {} THEN << >> ELSE opts[Last(t)].tools
            /\ a.maxIterations = IF m = {} THEN 100 ELSE opts[Last(m)].num
            /\ a.model = "gpt-4"

C24_Witness ==
    /\ calc.done
    /\ calc.fn = "NewAgent"
    /\ calc.in = << WithMaxIterations(0), WithMaxIterations(5) >>
    /\ calc.out.maxIterations = 5
    /\ calc.out.systemPrompt = ""
    /\ calc.out.tools = << >>

(***************************************************************************)
(* C25: convertMessages returns one provider turn per message, in the      *)
(* order of the messages (no turn for the empty list): a system or         *)
(* assistant message gives a turn of that role, every other message,       *)
(* one of an unknown role included, gives a user turn, and the turn of a   *)
(* text message carries its text.                                          *)
(***************************************************************************)
TurnRole(m) ==
    IF m.Role \in {RoleSystem, RoleAssistant} THEN m.Role ELSE "user"

C25_OneTurnPerMessage ==
    (calc.done /\ calc.fn = "convertMessages") =>
        /\ Len(calc.out) = Len(calc.in)
        /\ \A i \in DOMAIN calc.in :
              /\ calc.out[i].role = TurnRole(calc.in[i])
              /\ calc.in[i].Kind = MessageKindText =>
                    calc.out[i].text = calc.in[i].text
              /\ calc.in[i].Kind = MessageKindFile =>
                    calc.out[i].file.Name = calc.in[i].file.Name

C25_Witness ==
    /\ calc.done
    /\ calc.fn = "convertMessages"
    /\ calc.in = << SystemMessage("Hello"), UnknownRoleMessage >>
    /\ Len(calc.out) = 2
    /\ calc.out[2].role = "user"
    /\ calc.out[2].text = "Test"

(***************************************************************************)
(* C26: a run has at most one failure (remote call, argument decoding,     *)
(* Execute, result serialization) and starts no remote call and no         *)
(* Execute after it.  When the failure is at the k-th of the N tool calls  *)
(* of a reply, the other calls executed for that reply are exactly calls   *)
(* 1..k-1, in order and successfully; calls k+1..N are never executed; a   *)
(* call whose arguments fail to decode is itself not executed.             *)
(***************************************************************************)
IsFailure(e) == e.op \in {"call", "decode", "exec", "marshal"} /\ ~e.ok

Failures == { i \in DOMAIN trace : IsFailure(trace[i]) }

\* The position in the reply of the tool call a failure entry is about.
FailedAt(reply, e) == CHOOSE k \in DOMAIN reply.toolCalls : reply.toolCalls[k] = e.call

C26_NothingAfterFailure ==
    /\ Cardinality(Failures) <= 1
    /\ \A f \in Failures :
          /\ \A j \in DOMAIN trace :
                j > f => trace[j].op \notin {"call", "exec", "decode", "marshal"}
          /\ trace[f].op # "call" =>
                LET i == CallPos(NumCalls)
                    reply == trace[i].reply
                    k == FailedAt(reply, trace[f])
                    others == SelectSeq(SubSeq(trace, i, f),
                                        LAMBDA e : e.op = "exec" /\ e.call # trace[f].call)
                IN  /\ trace[f].call \in { reply.toolCalls[n] : n \in DOMAIN reply.toolCalls }
                    /\ Len(others) = k - 1
                    /\ \A n \in 1..(k - 1) :
                          others[n].ok /\ others[n].call = reply.toolCalls[n]
                    /\ trace[f].op = "decode" =>
                          \A j \in Idx("exec") : trace[j].call # trace[f].call
                    /\ \A n \in (k + 1)..Len(reply.toolCalls) :
                          \A j \in Idx("exec") : trace[j].call # reply.toolCalls[n]

\* The first of two tool calls of the second reply failed in Execute after
\* the first iteration ran its tools; the run is over.
C26_Witness ==
    /\ pc = "done"
    /\ NumCalls = 2
    /\ Failed("exec")
    /\ Len(trace[CallPos(2)].reply.toolCalls) = 2
    /\ \E f \in Failures : trace[f].call = trace[CallPos(2)].reply.toolCalls[1]
    /\ Cardinality(Idx("exec")) = 2

(***************************************************************************)
(* C27: for every tool call whose Execute returned a value, the history    *)
(* holds exactly one tool-result turn with the call's identifier, whose    *)
(* text is the value itself for a string and its JSON serialization for    *)
(* any other value; if the value cannot be serialized, no turn is appended *)
(* for the call, nothing more is executed or requested, and the run ends   *)
(* with the serialization error as its one, last event.                    *)
(***************************************************************************)
ResultTurns(id) == { q \in DOMAIN history : history[q].role = "tool" /\ history[q].id = id }

C27_ResultTurn ==
    \A j \in Idx("exec") :
        trace[j].ok =>
            LET v == trace[j].value
                turns == ResultTurns(trace[j].call.id)
            IN  /\ v.type = "string" =>
                      /\ Cardinality(turns) = 1
                      /\ \A q \in turns : history[q].text = v.s
                /\ v.type = "map" =>
                      /\ Cardinality(turns) = 1
                      /\ \A q \in turns :
                            history[q].text = "{\"n\":" \o Digit(v.n) \o "}"
                /\ v.type = "chan" =>
                      /\ turns = {}
                      /\ j + 1 \in Idx("marshal")
                      /\ \A i \in DOMAIN trace :
                            i > j + 1 => trace[i].op \in {"send", "close"}
                      /\ pc = "done" => EndsWithError("marshal")

\* One reply asked for tool b then tool a: b returned a map, a a string,
\* and both result turns are in the history.
C27_Witness ==
    /\ Cardinality(Idx("exec")) = 2
    /\ \E j \in Idx("exec") :
          /\ trace[j].ok
          /\ trace[j].value = MapValue(7)
          /\ \E q \in ResultTurns(trace[j].call.id) : history[q].text = "{\"n\":7}"
    /\ \E j \in Idx("exec") :
          /\ trace[j].ok
          /\ trace[j].value = StringValue("sunny")
          /\ \E q \in ResultTurns(trace[j].call.id) : history[q].text = "sunny"

(***************************************************************************)
(* C28: the sends of the background task do not observe the context.  Once *)
(* the consumer has stopped reading and the task is blocked on a send,     *)
(* every later step, the cancellation of the caller's context included,    *)
(* leaves it blocked on that same send, and the stream is not closed.      *)
(***************************************************************************)
Abandoned == ~reading /\ Sending

C28_BlockedForever ==
    /\ [](Abandoned => ~Closed)
    /\ [][Abandoned => (Abandoned' /\ pc' = pc /\ pending' = pending /\ ~Closed')]_vars

\* The consumer stopped while the Content event was pending and the
\* context was cancelled afterwards: the task is still at that send.
C28_Witness ==
    /\ ~reading
    /\ pc = "send_content"
    /\ cancelled
    /\ trace[Len(trace)].op = "cancel"
    /\ ~Closed

(***************************************************************************)
(* C29: when the iteration cap ends the run and the last reply requested   *)
(* tool calls, then before the stream is closed every tool call of that    *)
(* reply has been executed, in order, and the history is the last          *)
(* request's history plus the reply turn and one result turn per call;     *)
(* no remote request carries any of those result turns.                    *)
(***************************************************************************)
\* The run made maxIterations remote calls without a failure and its last
\* reply asked for tools: the goroutine has left the loop by the cap.
EndedByCap ==
    /\ pc \in {"close", "done"}
    /\ maxIterations >= 1
    /\ NumCalls = maxIterations
    /\ ~AnyFailure
    /\ HasToolCalls(trace[CallPos(NumCalls)].reply)

C29_LastToolsRun ==
    EndedByCap =>
        LET i == CallPos(NumCalls)
            reply == trace[i].reply
            N == Len(reply.toolCalls)
            execs == ExecsBetween(i, Len(trace))
        IN  /\ Len(execs) = N
            /\ \A n \in 1..N : execs[n].ok /\ execs[n].call = reply.toolCalls[n]
            /\ IsPrefix(trace[i].request, history)
            /\ IsIterationTurns(Suffix(history, Len(trace[i].request)), reply)
            /\ \A k \in Idx("call") :
                  \A q \in DOMAIN trace[k].request :
                      \A n \in 1..N : trace[k].request[q].id # reply.toolCalls[n].id
            /\ pc = "close" => ~Closed

C29_Witness ==
    /\ EndedByCap
    /\ pc = "close"
    /\ maxIterations = 2
    /\ Len(trace[CallPos(2)].reply.toolCalls) = 2
    /\ Len(history) = Len(trace[CallPos(2)].request) + 3

(***************************************************************************)
(* C30: with maxIterations <= 0 the run makes no remote call, executes no  *)
(* tool and sends no event: the goroutine goes from the loop straight to   *)
(* the close.  The stream is eventually closed, and ChatCompletion         *)
(* eventually returns, with the empty Completion and a nil error.          *)
(***************************************************************************)
EmptyRun ==
    /\ NumCalls = 0
    /\ Idx("exec") = {}
    /\ Events = << >>
    /\ pending = NoResponse
    /\ pc \in {"loop", "close", "done"}
    /\ history = buildMessages(systemPrompt, instructions, messages)
    /\ pc = "done" => Len(trace) = 1 /\ trace[1].op = "close" /\ trace[1].ok
    /\ pc # "done" => trace = << >>
    /\ result.returned => result = [returned |-> TRUE, completion |-> ZeroCompletion,
                                    err |-> NoError]

C30_NothingToDo ==
    /\ [](maxIterations <= 0 => EmptyRun)
    /\ (maxIterations <= 0 => <>(Closed /\ result.returned))

C30_Witness ==
    /\ maxIterations = -1
    /\ tools = << ToolA, ToolB >>
    /\ pc = "done"
    /\ Closed
    /\ result.returned
    /\ result.completion = ZeroCompletion
    /\ result.err = NoError
    /\ Len(trace) = 1

(***************************************************************************)
(* C31: a Completion returned by ChatCompletion never holds an Error       *)
(* event.  When the returned error is nil the stream carried no Error      *)
(* event and the Completion holds every event of the stream; when an       *)
(* Error event was received the Completion returned is the empty one.      *)
(***************************************************************************)
ErrorsIn(rs) == { i \in DOMAIN rs : IsErrorResponse(rs[i]) }

ReturnsNil ==
    /\ started.returned => started.err = NoError
    /\ pc = "start" => trace = << >> /\ ~started.returned
    /\ \A i \in Idx("call") : trace[i].at = "loop"
    /\ (pc \notin {"start", "crashed"} /\ ~started.returned) => ENABLED StreamReturn
    /\ (AnyFailure /\ pc = "done") =>
          /\ Cardinality(ErrorEvents) = 1
          /\ Events[Len(Events)].err # NoError

C32_StreamReturnsNil ==
    /\ []ReturnsNil
    /\ [][started' # started => (trace' = trace /\ pc' = pc /\ pending' = pending)]_vars

\* The first remote call failed, the Error event was delivered, the stream
\* is closed, and the call has returned nil.
C32_Witness ==
    /\ started.returned
    /\ started.err = NoError
    /\ pc = "done"
    /\ NumCalls = 1
    /\ Failed("call")
    /\ err = "transport"
    /\ Cardinality(ErrorEvents) = 1

====
